---- MODULE Spec2Model ----
(***************************************************************************)
(* Python Project Finder (mastnacek/Duproject).                            *)
(*                                                                         *)
(* Part 1: the recursive scan FinderModel.find_python_projects, run by a   *)
(* SearchWorker on its own thread and cancelled through SearchWorker.stop. *)
(* Part 2: FinderModel._calculate_similarity, find_duplicates and          *)
(* group_duplicates over a project list.                                   *)
(***************************************************************************)
EXTENDS Integers, Sequences, FiniteSets, TLC

VARIABLES
    \* ---- the file system the scan reads (inputs, fixed during a scan)
    rootKind,       \* what root_path is: "dir", "missing" or "file"
    rootLen,        \* len(root_path) in characters
    tree,           \* directory -> the regular files directly in it
    unreadable,     \* directories whose os.listdir raises PermissionError
    \* ---- FinderModel
    ignore_dirs,    \* FinderModel.ignore_dirs
    python_extensions, \* FinderModel.python_extensions
    projects,       \* FinderModel.projects
    log,            \* the notifications emitted since the scan was requested
    \* ---- SearchWorker / QThread
    running,        \* SearchWorker.running
    pc,             \* position of the worker thread
    stack,          \* activation records of find_projects_recursive
    \* ---- FinderController (main thread)
    scans,          \* scans requested so far
    stops,          \* stop requests made during the current scan
    \* ---- observation of the first poll that saw running = False
    observed,       \* the walk has read worker.running = False
    obsWalk,        \* walk notifications emitted when it did
    obsProjects,    \* FinderModel.projects when it did
    \* ---- duplicate analysis (part 2)
    gpc,            \* position of group_duplicates
    duplicates,     \* the sorted candidate pairs still to process
    groups,         \* the groups built so far
    processed_projects, \* paths of the projects already in a group
    lastPair,       \* the candidate pair processed by the last step
    simcalls,       \* the calls of _calculate_similarity made, with their results
    \* ---- a scan requested while another is active (FinderController)
    parked,         \* the worker of the earlier scan: its pc, stack and running
    slot,           \* which worker pc, stack and running describe
    mainPc,         \* position of the main thread inside find_projects
    \* ---- export and import
    jsonFile,       \* the content of the JSON file
    ioResult,       \* outcome of the last save_to_json / load_from_json
    snapshot,       \* FinderModel.projects when that call began
    \* ---- settings
    similarity_threshold, \* settings["similarity_threshold"] of the last update
    \* ---- ProjectModel.calculate_folder_hash
    hashInput,      \* the two directory trees hashed
    hashcalls,      \* the calls made, with their digests
    \* ---- the directory classifiers called on one listing
    listing,        \* what os.listdir returns, in order; << >> when it raises
    listable,       \* whether os.listdir succeeds
    clscalls,       \* the calls made, with results and notifications
    \* ---- a file system that changes during the scan
    changed         \* <<scan, directory, how>>: the directory changed between
                    \* its classification and its analysis in that scan

scanVars == <<rootKind, rootLen, tree, unreadable, ignore_dirs, python_extensions,
              log, running, pc, stack, scans, stops,
              observed, obsWalk, obsProjects>>
groupVars == <<gpc, duplicates, groups, processed_projects, lastPair, simcalls>>
restartVars == <<parked, slot, mainPc>>
jsonVars == <<jsonFile, ioResult, snapshot>>
hashVars == <<hashInput, hashcalls>>
clsVars == <<listing, listable, clscalls>>
extVars == <<restartVars, jsonVars, similarity_threshold, hashVars, clsVars, changed>>
vars == <<scanVars, projects, groupVars, extVars>>

(***************************************************************************)
(* Bounds of the model.                                                    *)
(***************************************************************************)
MaxScans == 2
MaxStops == 1

(***************************************************************************)
(* config.py                                                               *)
(***************************************************************************)
IGNORED_DIRECTORIES ==
    {"__pycache__", "venv", ".venv", "env", ".git", ".idea", ".vscode",
     "node_modules", "build", "dist", ".pytest_cache", ".mypy_cache", ".tox",
     ".eggs", "cache", "thumbnails"}

PYTHON_EXTENSIONS == {".py", ".pyw", ".pyx", ".pyi", ".pyc"}

IGNORED_FILE_EXTENSIONS ==
    {".jpg", ".jpeg", ".png", ".gif", ".bmp", ".tiff", ".svg", ".webp", ".ico",
     ".heic", ".heif", ".psd", ".ai", ".eps", ".raw", ".cr2", ".nef", ".dng",
     ".mp4", ".avi", ".mov", ".wmv", ".flv", ".mkv"}

\* A file name is its stem and its extension from the last dot on: every
\* configured extension is one dot followed by letters, so name.endswith(ext)
\* is equality of that last extension.
File(stem, ext) == [stem |-> stem, ext |-> ext]

PROJECT_ROOT_FILES ==
    << File("README", ".md"), File("README", ".txt"), File("readme", ".md"),
       File("readme", ".txt"), File("", ".env"), File("requirements", ".txt"),
       File("setup", ".py"), File("pyproject", ".toml"), File("Pipfile", ""),
       File("poetry", ".lock"), File("", ".gitignore"), File("LICENSE", ""),
       File("setup", ".cfg"), File("tox", ".ini"), File("manage", ".py"),
       File("README", ".rst"), File("MANIFEST", ".in"), File("Dockerfile", ""),
       File("docker-compose", ".yml") >>

MAX_PATH == 255

(***************************************************************************)
(* Scores.  A similarity is a fraction in lowest terms; the weights 0.6,    *)
(* 0.2, 0.2 and 0.7, 0.3 and the threshold 0.7 are tenths.                  *)
(***************************************************************************)
RECURSIVE GCD(_, _)
GCD(a, b) == IF b = 0 THEN a ELSE GCD(b, a % b)

Frac(n, d) == LET g == GCD(n, d) IN [num |-> n \div g, den |-> d \div g]

Zero == Frac(0, 1)
One == Frac(1, 1)

Geq(x, y) == x.num * y.den >= y.num * x.den
Less(x, y) == ~Geq(x, y)

SIMILARITY_THRESHOLD == Frac(7, 10)

(***************************************************************************)
(* The file systems scanned.  A directory is the sequence of names leading *)
(* to it from the scan root; the root is << >>.                            *)
(***************************************************************************)
Root == << >>

Dirs ==
    { Root, <<"proj">>, <<"proj", "sub">>, <<"lib">>,
      <<"node_modules">>, <<"node_modules", "sub">> }

MainPy == File("main", ".py")
ReadmeMd == File("README", ".md")

Contents == { {}, {MainPy}, {ReadmeMd} }

IsPrefix(a, b) == Len(a) <= Len(b) /\ SubSeq(b, 1, Len(a)) = a

Parent(d) == SubSeq(d, 1, Len(d) - 1)

\* os.path.basename; the scan root is named by root_path itself.
Basename(d) == IF d = Root THEN "" ELSE d[Len(d)]

Children(d) == { c \in Dirs : Len(c) = Len(d) + 1 /\ Parent(c) = d }

Subtree(d) == { c \in Dirs : IsPrefix(d, c) }

BelowIgnored(d) == \E i \in 1..Len(d) : d[i] \in IGNORED_DIRECTORIES

\* os.path.join(path, item): one separator and the item's name per level.
RECURSIVE PathLen(_, _)
PathLen(len0, d) ==
    IF d = Root THEN len0 ELSE PathLen(len0, Parent(d)) + 1 + Len(Basename(d))

RECURSIVE SeqOf(_)
SeqOf(S) ==
    IF S = {} THEN << >>
    ELSE LET x == CHOOSE y \in S : TRUE IN <<x>> \o SeqOf(S \ {x})

RECURSIVE Flatten(_)
Flatten(ss) == IF ss = << >> THEN << >> ELSE Head(ss) \o Flatten(Tail(ss))

(***************************************************************************)
(* Notifications (Qt signals of FinderModel).                              *)
(***************************************************************************)
NoFile == File("", "")

Ev(type, path, file, count, src) ==
    [type |-> type, path |-> path, file |-> file, count |-> count, src |-> src]

EvStarted == Ev("started", Root, NoFile, 0, "scan")
EvError == Ev("error", Root, NoFile, 0, "scan")
EvFinished(n, src) == Ev("finished", Root, NoFile, n, src)
EvDir(d) == Ev("dir", d, NoFile, 0, "scan")
EvFile(d, f) == Ev("file", d, f, 0, "scan")
EvProject(d) == Ev("project", d, NoFile, 0, "scan")

WalkTypes == {"dir", "file", "project"}

Count(s, P(_)) == Cardinality({ i \in 1..Len(s) : P(s[i]) })

IsWalk(e) == e.type \in WalkTypes

(***************************************************************************)
(* Directory classifier.                                                   *)
(***************************************************************************)
\* item.lower() on the extension.
Lower(ext) ==
    CASE ext = ".PNG" -> ".png"
      [] ext = ".JPG" -> ".jpg"
      [] ext = ".PY" -> ".py"
      [] OTHER -> ext

HasIgnoredExtension(f) == Lower(f.ext) \in IGNORED_FILE_EXTENSIONS

\* FinderModel.is_python_project: the files that make the loop return True.
\* An unreadable directory raises in os.listdir and the except returns False.
PythonMatches(d) ==
    IF d \in unreadable THEN {}
    ELSE { f \in tree[d] : ~HasIgnoredExtension(f) /\ f.ext \in python_extensions }

is_python_project(d) == PythonMatches(d) # {}

\* FinderModel.is_project_root: indexes of the markers that make it return
\* True; the loop over PROJECT_ROOT_FILES returns at the smallest.
RootMatches(d) ==
    IF d \in unreadable THEN {}
    ELSE { i \in 1..Len(PROJECT_ROOT_FILES) :
             /\ PROJECT_ROOT_FILES[i] \in tree[d]
             /\ ~HasIgnoredExtension(PROJECT_ROOT_FILES[i]) }

is_project_root(d) == RootMatches(d) # {}

FirstRootFile(d) ==
    PROJECT_ROOT_FILES[CHOOSE i \in RootMatches(d) : \A j \in RootMatches(d) : i <= j]

(***************************************************************************)
(* ProjectModel.                                                           *)
(***************************************************************************)
None == "None"

\* An optional integer: << >> is None, <<n>> is n.
NoSize == << >>
Size(n) == <<n>>

Range(s) == { s[i] : i \in 1..Len(s) }

\* ProjectModel._analyze_project: the marker files directly in d ...
AnalyzedProjectFiles(d) ==
    SeqOf({ f \in tree[d] : f \in Range(PROJECT_ROOT_FILES) /\ ~HasIgnoredExtension(f) })

\* ... and every file of the subtree (os.walk) whose name ends with ".py".
AnalyzedPythonFiles(d) ==
    Flatten([ i \in 1..Cardinality(Subtree(d)) |->
        LET c == SeqOf(Subtree(d))[i]
            fs == SeqOf({ f \in tree[c] : f.ext = ".py" })
        IN  [ k \in 1..Len(fs) |-> [dir |-> c, file |-> fs[k]] ] ])

\* ProjectModel.__init__ followed by _analyze_project.
NewProject(d) ==
    [ path |-> d,
      name |-> Basename(d),
      python_files |-> AnalyzedPythonFiles(d),
      project_files |-> AnalyzedProjectFiles(d),
      real_size |-> NoSize,
      folder_hash |-> None ]

\* The file_scan_callback calls made by _analyze_project, in order.
AnalyzeEvents(d) ==
    LET pf == AnalyzedProjectFiles(d)
        py == AnalyzedPythonFiles(d)
    IN  [ i \in 1..Len(pf) |-> EvFile(d, pf[i]) ]
        \o [ i \in 1..Len(py) |-> EvFile(py[i].dir, py[i].file) ]

(***************************************************************************)
(* FinderModel.find_python_projects, step by step.                         *)
(***************************************************************************)
Frame(d, isRoot, pPy, pRoot) ==
    [ path |-> d, is_root_dir |-> isRoot,
      parent_has_python |-> pPy, parent_is_project_root |-> pRoot,
      is_python |-> FALSE, is_project_root |-> FALSE,
      items |-> {}, phase |-> "enter" ]

Top == stack[Len(stack)]

Pop == SubSeq(stack, 1, Len(stack) - 1)

ReplaceTop(f) == [stack EXCEPT ![Len(stack)] = f]

ThreadIsRunning == pc \in {"started", "scan", "walk", "ret", "quit"}

\* A poll of worker.running that reads False.
Observe ==
    IF observed THEN UNCHANGED <<observed, obsWalk, obsProjects>>
    ELSE /\ observed' = TRUE
         /\ obsWalk' = Count(log, IsWalk)
         /\ obsProjects' = projects

fsVars == <<rootKind, rootLen, tree, unreadable, ignore_dirs, python_extensions>>
obsVars == <<observed, obsWalk, obsProjects>>
ctlVars == <<scans, stops>>

\* The entries os.listdir(path) returns: the files and the subdirectories.
FileItem(f) == [kind |-> "file", file |-> f, name |-> ""]
DirItem(c) == [kind |-> "dir", file |-> NoFile, name |-> Basename(c)]

Listing(d) ==
    { FileItem(f) : f \in tree[d] } \cup { DirItem(c) : c \in Children(d) }

(***************************************************************************)
(* Initial states: the model after FinderController.__init__, and a file   *)
(* system to scan.                                                         *)
(***************************************************************************)
EmptyTree == [ d \in Dirs |-> {} ]

\* Every ignored directory holds a Python file: the case of the ignore list.
Trees == { t \in [Dirs -> Contents] : \A d \in Dirs : BelowIgnored(d) => t[d] = {MainPy} }

\* <<len(root_path), unreadable directories>>
Environments ==
    { <<3, {}>>, <<3, {Root}>>, <<3, {<<"lib">>}>>, <<250, {}>>, <<256, {}>> }

NoPair == [p1 |-> Root, p2 |-> Root, had1 |-> FALSE, had2 |-> FALSE, holders |-> {}, skipped |-> TRUE]

\* No earlier worker.
NoWorker == [pc |-> "none", stack |-> << >>, running |-> FALSE]

RestartIdle ==
    /\ parked = NoWorker
    /\ slot = "current"
    /\ mainPc = "idle"

JsonIdle ==
    /\ jsonFile = [kind |-> "missing", by |-> "hand", records |-> << >>]
    /\ ioResult = "none"
    /\ snapshot = << >>

\* The settings dialog starts from the configured threshold.
SettingsIdle == similarity_threshold = SIMILARITY_THRESHOLD

HashIdle ==
    /\ hashInput = << >>
    /\ hashcalls = {}

ClsIdle ==
    /\ listing = << >>
    /\ listable = TRUE
    /\ clscalls = {}

ModelInit ==
    /\ ignore_dirs = IGNORED_DIRECTORIES
    /\ python_extensions = PYTHON_EXTENSIONS
    /\ log = << >>
    /\ running = FALSE
    /\ pc = "none"
    /\ stack = << >>
    /\ scans = 0
    /\ stops = 0
    /\ observed = FALSE
    /\ obsWalk = 0
    /\ obsProjects = << >>
    /\ gpc = "idle"
    /\ duplicates = << >>
    /\ groups = << >>
    /\ processed_projects = {}
    /\ lastPair = NoPair
    /\ simcalls = {}
    /\ changed = {}

FsInit ==
    \/ /\ rootKind \in {"missing", "file"}
       /\ rootLen = 3
       /\ tree = EmptyTree
       /\ unreadable = {}
    \/ /\ rootKind = "dir"
       /\ tree \in Trees
       /\ \E env \in Environments : rootLen = env[1] /\ unreadable = env[2]

Init ==
    /\ ModelInit
    /\ FsInit
    /\ projects = << >>
    /\ RestartIdle /\ JsonIdle /\ SettingsIdle /\ HashIdle /\ ClsIdle

(***************************************************************************)
(* FinderController.find_projects with no scan active: a new QThread and   *)
(* SearchWorker (running = True in its constructor), thread.start().       *)
(***************************************************************************)
FindProjects ==
    /\ ~ThreadIsRunning
    /\ scans < MaxScans
    /\ scans' = scans + 1
    /\ stops' = 0
    /\ running' = TRUE
    /\ pc' = "started"
    /\ log' = << >>
    /\ observed' = FALSE
    /\ obsWalk' = 0
    /\ obsProjects' = << >>
    /\ UNCHANGED <<fsVars, projects, stack, groupVars, extVars>>

\* SearchWorker.run, its first statement.
RunBegin ==
    /\ pc = "started"
    /\ running' = TRUE
    /\ pc' = "scan"
    /\ UNCHANGED <<fsVars, projects, log, stack, ctlVars, obsVars, groupVars, extVars>>

RootErrorEvents_Silent == <<EvStarted, EvFinished(0, "scan")>>

\* What find_python_projects emits when root_path is missing or no directory.
RootErrorEvents == <<EvStarted, EvError, EvFinished(0, "scan")>>

\* find_python_projects up to the first call of find_projects_recursive.
ScanStart ==
    /\ pc = "scan"
    /\ projects' = << >>
    /\ IF rootKind = "dir"
       THEN /\ log' = log \o <<EvStarted>>
            /\ stack' = << Frame(Root, TRUE, FALSE, FALSE) >>
            /\ pc' = "walk"
       ELSE /\ log' = log \o RootErrorEvents
            /\ stack' = << >>
            /\ pc' = "ret"
    /\ UNCHANGED <<fsVars, running, ctlVars, obsVars, groupVars, extVars>>

\* find_projects_recursive: the poll, directory_scanning and the length guard.
TooLong_Never(d) == FALSE

\* len(path) > 255: the directory is announced and then left.
TooLong(d) == PathLen(rootLen, d) > MAX_PATH

Enter ==
    /\ pc = "walk"
    /\ stack # << >>
    /\ Top.phase = "enter"
    /\ IF ~running
       THEN /\ Observe
            /\ stack' = Pop
            /\ log' = log
       ELSE /\ log' = log \o <<EvDir(Top.path)>>
            /\ stack' = IF TooLong(Top.path)
                        THEN Pop
                        ELSE ReplaceTop([Top EXCEPT !.phase = "classify"])
            /\ UNCHANGED obsVars
    /\ UNCHANGED <<fsVars, projects, running, pc, ctlVars, groupVars, extVars>>

\* The notifications of the two classifier calls on d: is_python_project
\* reports the first matching file of its listing, is_project_root the first
\* marker of PROJECT_ROOT_FILES.
ClassifyEvents(d, f) ==
    (IF is_python_project(d) THEN <<EvFile(d, f)>> ELSE << >>)
    \o (IF is_project_root(d) THEN <<EvFile(d, FirstRootFile(d))>> ELSE << >>)

IsNewProject_NoRootExemption(fr, isPy, isRt) ==
    /\ (isPy \/ isRt)
    /\ ~(fr.parent_has_python \/ fr.parent_is_project_root)

\* The condition under which d becomes a project and is not descended into.
IsNewProject(fr, isPy, isRt) ==
    /\ ~fr.is_root_dir
    /\ (isPy \/ isRt)
    /\ ~(fr.parent_has_python \/ fr.parent_is_project_root)

\* What remains of the call once the project is appended and announced:
\* the return that keeps the walk out of a project's subdirectories.
AfterProject_Descend(fr) ==
    ReplaceTop([fr EXCEPT !.items = Listing(fr.path), !.phase = "loop"])

AfterProject(fr) == Pop

\* The count search_finished carries when the walk has returned.
\* search_finished.emit(0), as the error paths do.
FinishedCount_Zero == Len(<< >>)

FinishedCount == Len(projects)

AddProject_Front(ps, p) == <<p>> \o ps

\* self.projects.append(project)
AddProject(ps, p) == Append(ps, p)

\* os.listdir(path) raises PermissionError or OSError: the handler of lines
\* 194-198 returns from this call of find_projects_recursive only.
AfterListingError == Pop

\* find_projects_recursive: classification, then either the new project or
\* the listing of the directory.
Classify ==
    /\ pc = "walk"
    /\ stack # << >>
    /\ Top.phase = "classify"
    /\ LET d == Top.path
           isPy == is_python_project(d)
           isRt == is_project_root(d)
       IN  \E f \in (IF isPy THEN PythonMatches(d) ELSE {NoFile}) :
             IF IsNewProject(Top, isPy, isRt)
             THEN /\ projects' = AddProject(projects, NewProject(d))
                  /\ log' = log \o ClassifyEvents(d, f) \o AnalyzeEvents(d)
                                \o <<EvProject(d)>>
                  /\ stack' = AfterProject(Top)
             ELSE /\ projects' = projects
                  /\ log' = log \o ClassifyEvents(d, f)
                  /\ stack' = IF d \in unreadable
                              THEN AfterListingError
                              ELSE ReplaceTop([Top EXCEPT
                                       !.is_python = isPy,
                                       !.is_project_root = isRt,
                                       !.items = Listing(d),
                                       !.phase = "loop"])
    /\ UNCHANGED <<fsVars, running, pc, ctlVars, obsVars, groupVars, extVars>>

\* The for loop over the listing is exhausted: the call returns.
LoopEnd ==
    /\ pc = "walk"
    /\ stack # << >>
    /\ Top.phase = "loop"
    /\ Top.items = {}
    /\ stack' = Pop
    /\ UNCHANGED <<fsVars, projects, log, running, pc, ctlVars, obsVars, groupVars, extVars>>

\* The poll at the head of a loop iteration reads running = False.
LoopStopped ==
    /\ pc = "walk"
    /\ stack # << >>
    /\ Top.phase = "loop"
    /\ Top.items # {}
    /\ ~running
    /\ Observe
    /\ stack' = Pop
    /\ UNCHANGED <<fsVars, projects, log, running, pc, ctlVars, groupVars, extVars>>

Descends_NoIgnore(item) == item.kind = "dir"

\* Whether the loop body descends into the item.
Descends(item) == item.kind = "dir" /\ item.name \notin ignore_dirs

InheritedFlag_ParentOnly(parent, own) == parent

\* parent_has_python=parent_has_python or is_python, and the same for
\* parent_is_project_root: the flag a subdirectory is visited with.
InheritedFlag(parent, own) == parent \/ own

\* One iteration of the loop: os.listdir order is any order.
LoopItem ==
    /\ pc = "walk"
    /\ stack # << >>
    /\ Top.phase = "loop"
    /\ running
    /\ \E item \in Top.items :
         LET rest == [Top EXCEPT !.items = Top.items \ {item}]
         IN  stack' =
               IF Descends(item)
               THEN Append(ReplaceTop(rest),
                           Frame(Append(Top.path, item.name), FALSE,
                                 InheritedFlag(Top.parent_has_python, Top.is_python),
                                 InheritedFlag(Top.parent_is_project_root,
                                               Top.is_project_root)))
               ELSE ReplaceTop(rest)
    /\ UNCHANGED <<fsVars, projects, log, running, pc, ctlVars, obsVars, groupVars, extVars>>

\* The walk has returned: search_finished(len(self.projects)).
ScanFinish ==
    /\ pc = "walk"
    /\ stack = << >>
    /\ log' = Append(log, EvFinished(FinishedCount, "scan"))
    /\ pc' = "ret"
    /\ UNCHANGED <<fsVars, projects, running, stack, ctlVars, obsVars, groupVars, extVars>>

\* SearchWorker.run after the scan: running = False, finished.emit().
RunEnd ==
    /\ pc = "ret"
    /\ running' = FALSE
    /\ pc' = "quit"
    /\ UNCHANGED <<fsVars, projects, log, stack, ctlVars, obsVars, groupVars, extVars>>

\* The thread's event loop has quit: isRunning() is False from here on.
ThreadExit ==
    /\ pc = "quit"
    /\ pc' = "none"
    /\ UNCHANGED <<fsVars, projects, log, running, stack, ctlVars, obsVars, groupVars, extVars>>

\* FinderController.stop_search -> SearchWorker.stop, called on the main
\* thread while the scan thread isRunning(): the flag, then search_finished
\* with the length of the project list at that moment.
Stop ==
    /\ ThreadIsRunning
    /\ stops < MaxStops
    /\ running' = FALSE
    /\ stops' = stops + 1
    /\ log' = Append(log, EvFinished(Len(projects), "stop"))
    /\ UNCHANGED <<fsVars, projects, pc, stack, scans, obsVars, groupVars, extVars>>

Next ==
    \/ FindProjects
    \/ RunBegin
    \/ ScanStart
    \/ Enter
    \/ Classify
    \/ LoopEnd
    \/ LoopStopped
    \/ LoopItem
    \/ ScanFinish
    \/ RunEnd
    \/ ThreadExit
    \/ Stop

Spec == Init /\ [][Next]_vars

(***************************************************************************)
(* difflib.SequenceMatcher(None, a, b).ratio(), as _calculate_similarity   *)
(* calls it: no junk, and sequences far below the autojunk length.         *)
(***************************************************************************)
\* The matching blocks a[i..i+k-1] = b[j..j+k-1] inside the windows
\* a[alo..ahi-1] and b[blo..bhi-1].
MatchingBlocksIn(a, b, alo, ahi, blo, bhi) ==
    { m \in (alo..(ahi - 1)) \X (blo..(bhi - 1)) \X (1..(ahi - alo)) :
        /\ m[1] + m[3] <= ahi
        /\ m[2] + m[3] <= bhi
        /\ \A t \in 0..(m[3] - 1) : a[m[1] + t] = b[m[2] + t] }

\* find_longest_match: the longest block; of those the one starting earliest
\* in a; of those the one starting earliest in b.
LongestMatch(a, b, alo, ahi, blo, bhi) ==
    LET ms == MatchingBlocksIn(a, b, alo, ahi, blo, bhi)
    IN  CHOOSE m \in ms :
          \A o \in ms :
             \/ m[3] > o[3]
             \/ m[3] = o[3] /\ m[1] < o[1]
             \/ m[3] = o[3] /\ m[1] = o[1] /\ m[2] <= o[2]

\* get_matching_blocks: the longest match, then the same to its left and to
\* its right; the number of matched elements.
RECURSIVE Matches(_, _, _, _, _, _)
Matches(a, b, alo, ahi, blo, bhi) ==
    IF MatchingBlocksIn(a, b, alo, ahi, blo, bhi) = {} THEN 0
    ELSE LET m == LongestMatch(a, b, alo, ahi, blo, bhi)
         IN  m[3] + Matches(a, b, alo, m[1], blo, m[2])
                  + Matches(a, b, m[1] + m[3], ahi, m[2] + m[3], bhi)

\* ratio(): 2.0 * matches / (len(a) + len(b)), and 1.0 for two empty sequences.
Ratio(a, b) ==
    IF Len(a) + Len(b) = 0 THEN One
    ELSE Frac(2 * Matches(a, b, 1, Len(a) + 1, 1, Len(b) + 1), Len(a) + Len(b))

(***************************************************************************)
(* FinderModel._calculate_similarity                                       *)
(***************************************************************************)
\* Python's order on the file names of the model's project lists.
NameOrder == << "a", "b", "main" >>

NameRank(f) == CHOOSE i \in 1..Len(NameOrder) : NameOrder[i] = f.stem

NameBefore(f, g) == NameRank(f) < NameRank(g)

\* sorted(names): insertion of the last element into the sorted rest.
RECURSIVE SortedNames(_)
SortedNames(xs) ==
    IF xs = << >> THEN << >>
    ELSE LET rest == SortedNames(SubSeq(xs, 1, Len(xs) - 1))
             x == xs[Len(xs)]
             k == Cardinality({ i \in 1..Len(rest) : ~NameBefore(x, rest[i]) })
         IN  SubSeq(rest, 1, k) \o <<x>> \o SubSeq(rest, k + 1, Len(rest))

\* sorted([os.path.basename(f) for f in project.python_files])
SortedBasenames(p) ==
    SortedNames([ i \in 1..Len(p.python_files) |-> p.python_files[i].file ])

\* Truth value of folder_hash: None and the empty string are false.
HasHash(p) == p.folder_hash # None /\ p.folder_hash # ""

HasRealSize(p) == p.real_size # NoSize

Min(x, y) == IF x <= y THEN x ELSE y
Max(x, y) == IF x >= y THEN x ELSE y

size_similarity(p1, p2) ==
    IF /\ HasRealSize(p1) /\ HasRealSize(p2)
       /\ p1.real_size[1] > 0 /\ p2.real_size[1] > 0
    THEN Frac(Min(p1.real_size[1], p2.real_size[1]), Max(p1.real_size[1], p2.real_size[1]))
    ELSE Zero

\* file * 0.6 + name * 0.2 + size * 0.2
Weighted3(f, n, s) ==
    Frac(6 * f.num * n.den * s.den + 2 * n.num * f.den * s.den + 2 * s.num * f.den * n.den,
         10 * f.den * n.den * s.den)

\* file * 0.7 + name * 0.3
Weighted2(f, n) == Frac(7 * f.num * n.den + 3 * n.num * f.den, 10 * f.den * n.den)

total_similarity(p1, p2) ==
    LET f == Ratio(SortedBasenames(p1), SortedBasenames(p2))
        n == Ratio(p1.name, p2.name)
    IN  IF HasRealSize(p1) /\ HasRealSize(p2)
        THEN Weighted3(f, n, size_similarity(p1, p2))
        ELSE Weighted2(f, n)

calculate_similarity_NoHashRule(p1, p2) ==
    IF p1.python_files = << >> \/ p2.python_files = << >> THEN Zero
    ELSE total_similarity(p1, p2)

calculate_similarity_NoEmptyRule(p1, p2) ==
    IF HasHash(p1) /\ HasHash(p2) /\ p1.folder_hash = p2.folder_hash THEN One
    ELSE total_similarity(p1, p2)

calculate_similarity(p1, p2) ==
    IF p1.python_files = << >> \/ p2.python_files = << >> THEN Zero
    ELSE IF HasHash(p1) /\ HasHash(p2) /\ p1.folder_hash = p2.folder_hash THEN One
    ELSE total_similarity(p1, p2)

(***************************************************************************)
(* FinderModel.find_duplicates and group_duplicates                        *)
(***************************************************************************)
\* The pairs (i, j), i < j, in the order of the two nested loops.
IndexPairs(n) ==
    Flatten([ i \in 1..n |-> [ k \in 1..(n - i) |-> <<i, i + k>> ] ])

Candidate(p1, p2) ==
    [project1 |-> p1, project2 |-> p2, similarity |-> calculate_similarity(p1, p2)]

IsDuplicate(c) == Geq(c.similarity, SIMILARITY_THRESHOLD)

\* find_duplicates: the list `duplicates` it returns.
find_duplicates(ps) ==
    SelectSeq([ k \in 1..Len(IndexPairs(Len(ps))) |->
                  Candidate(ps[IndexPairs(Len(ps))[k][1]], ps[IndexPairs(Len(ps))[k][2]]) ],
              IsDuplicate)

\* sorted(duplicates, key=lambda x: x[2], reverse=True): stable.
RECURSIVE SortedBySimilarity(_)
SortedBySimilarity(ds) ==
    IF ds = << >> THEN << >>
    ELSE LET rest == SortedBySimilarity(SubSeq(ds, 1, Len(ds) - 1))
             x == ds[Len(ds)]
             k == Cardinality({ i \in 1..Len(rest) : Geq(rest[i].similarity, x.similarity) })
         IN  SubSeq(rest, 1, k) \o <<x>> \o SubSeq(rest, k + 1, Len(rest))

\* groups.sort(key=lambda x: len(x['projects']), reverse=True): stable.
RECURSIVE SortedBySize(_)
SortedBySize(gs) ==
    IF gs = << >> THEN << >>
    ELSE LET rest == SortedBySize(SubSeq(gs, 1, Len(gs) - 1))
             x == gs[Len(gs)]
             k == Cardinality({ i \in 1..Len(rest) : Len(rest[i].projects) >= Len(x.projects) })
         IN  SubSeq(rest, 1, k) \o <<x>> \o SubSeq(rest, k + 1, Len(rest))

\* `project in group_projects`: ProjectModel.__eq__ compares the paths.
InList(p, ps) == \E i \in 1..Len(ps) : ps[i].path = p.path

InGroups(p) == \E g \in 1..Len(groups) : InList(p, groups[g].projects)

FoundGroup_None(p1, p2) == 0

\* The first group holding project1 or project2; 0 when there is none.
FoundGroup(p1, p2) ==
    LET holding == { g \in 1..Len(groups) :
                       InList(p1, groups[g].projects) \/ InList(p2, groups[g].projects) }
    IN  IF holding = {} THEN 0
        ELSE CHOOSE g \in holding : \A h \in holding : g <= h

NewGroup == [projects |-> << >>, similarities |-> << >>]

AddMember_Always(ps, p) == Append(ps, p)

\* if project not in group_projects: group_projects.append(project)
AddMember(ps, p) == IF InList(p, ps) THEN ps ELSE Append(ps, p)

\* found_group['similarities'][(project1, project2)] = similarity, both ways;
\* the keys hash and compare by path.
SetSimilarity(sims, p1, p2, v) ==
    LET keys == { <<p1.path, p2.path>>, <<p2.path, p1.path>> }
        kept == SelectSeq(sims, LAMBDA e : e.key \notin keys)
    IN  kept \o << [key |-> <<p1.path, p2.path>>, value |-> v] >>
             \o (IF p1.path = p2.path THEN << >>
                 ELSE << [key |-> <<p2.path, p1.path>>, value |-> v] >>)

\* group_duplicates up to its loop: find_duplicates, the early return, the sort.
GroupStart ==
    /\ gpc = "idle"
    /\ pc = "none"
    /\ LET found == find_duplicates(projects)
       IN  IF found = << >>
           THEN /\ gpc' = "done"
                /\ duplicates' = << >>
           ELSE /\ gpc' = "loop"
                /\ duplicates' = SortedBySimilarity(found)
    /\ groups' = << >>
    /\ processed_projects' = {}
    /\ lastPair' = NoPair
    /\ UNCHANGED <<scanVars, extVars, projects, simcalls>>

\* One iteration of the loop over the sorted candidate pairs.
GroupStep ==
    /\ gpc = "loop"
    /\ duplicates # << >>
    /\ duplicates' = Tail(duplicates)
    /\ LET p1 == Head(duplicates).project1
           p2 == Head(duplicates).project2
           v == Head(duplicates).similarity
           skip == p1.path \in processed_projects /\ p2.path \in processed_projects
           fg == FoundGroup(p1, p2)
           base == IF fg = 0 THEN Append(groups, NewGroup) ELSE groups
           at == IF fg = 0 THEN Len(groups) + 1 ELSE fg
           members == AddMember(AddMember(base[at].projects, p1), p2)
       IN  /\ lastPair' = [p1 |-> p1.path, p2 |-> p2.path,
                           had1 |-> InGroups(p1), had2 |-> InGroups(p2),
                           holders |-> { g \in 1..Len(groups) :
                                           InList(p1, groups[g].projects)
                                             \/ InList(p2, groups[g].projects) },
                           skipped |-> skip]
           /\ IF skip
              THEN UNCHANGED <<groups, processed_projects>>
              ELSE /\ groups' = [base EXCEPT ![at] =
                                   [projects |-> members,
                                    similarities |-> SetSimilarity(base[at].similarities, p1, p2, v)]]
                   /\ processed_projects' =
                        processed_projects
                          \cup { members[i].path : i \in (Len(base[at].projects) + 1)..Len(members) }
    /\ UNCHANGED <<scanVars, extVars, projects, gpc, simcalls>>

\* The loop is over: the groups are sorted by size and returned.
GroupFinish ==
    /\ gpc = "loop"
    /\ duplicates = << >>
    /\ groups' = SortedBySize(groups)
    /\ gpc' = "done"
    /\ lastPair' = NoPair
    /\ UNCHANGED <<scanVars, extVars, projects, duplicates, processed_projects, simcalls>>

\* A call _calculate_similarity(projects[i], projects[j]).
CallSimilarity ==
    /\ gpc = "idle"
    /\ \E i, j \in 1..Len(projects) :
         /\ i # j
         /\ \A c \in simcalls : <<c.i, c.j>> # <<i, j>>
         /\ simcalls' = simcalls \cup
               { [i |-> i, j |-> j, result |-> calculate_similarity(projects[i], projects[j])] }
    /\ UNCHANGED <<scanVars, extVars, projects, gpc, duplicates, groups, processed_projects, lastPair>>

(***************************************************************************)
(* Project lists for the duplicate analysis: what a scan followed by the   *)
(* on-demand hash and size computations, or an import, leaves in           *)
(* FinderModel.projects.                                                   *)
(***************************************************************************)
MaxProjects == 4

PyFile(stem) == [dir |-> Root, file |-> File(stem, ".py")]

Project(path, name, files, size, hash) ==
    [ path |-> <<path>>, name |-> name, python_files |-> files,
      project_files |-> << >>, real_size |-> size, folder_hash |-> hash ]

ProjA == Project("p1", <<"a">>, <<PyFile("a")>>, Size(1), None)
ProjB == Project("p2", <<"a", "b", "c">>, <<PyFile("a")>>, Size(1), None)
ProjC == Project("p3", <<"c">>, <<PyFile("a")>>, Size(4), None)
ProjE == Project("p4", <<"c">>, << >>, Size(4), "h1")
ProjF == Project("p5", <<"a", "b", "a">>, <<PyFile("b")>>, NoSize, "h1")
ProjG == Project("p6", <<"b", "c", "a">>, <<PyFile("b"), PyFile("a")>>, NoSize, "h1")
ProjA2 == Project("p1", <<"a", "b", "c">>, <<PyFile("a")>>, NoSize, None)

Pool == { ProjA, ProjB, ProjC, ProjE, ProjF, ProjG, ProjA2 }

RECURSIVE ListsOver(_, _)
ListsOver(S, n) ==
    IF n = 0 THEN { << >> }
    ELSE LET shorter == ListsOver(S, n - 1)
         IN  shorter \cup { Append(l, x) : l \in { m \in shorter : Len(m) = n - 1 }, x \in S }

DupInit ==
    /\ ModelInit
    /\ rootKind = "dir"
    /\ rootLen = 3
    /\ tree = EmptyTree
    /\ unreadable = {}
    /\ projects \in ListsOver(Pool, MaxProjects)
    /\ RestartIdle /\ JsonIdle /\ SettingsIdle /\ HashIdle /\ ClsIdle

DupNext == GroupStart \/ GroupStep \/ GroupFinish

SpecDup == DupInit /\ [][DupNext]_vars

\* The two projects given to _calculate_similarity.
SimNames == { <<"a", "b", "a">>, <<"b", "c", "a">>, <<"a", "b">> }
SimFiles == { << >>, <<PyFile("a")>>, <<PyFile("b"), PyFile("a")>> }
SimSizes == { NoSize, Size(0), Size(1), Size(2) }
SimHashes == { None, "", "h1", "h2" }

SimProjects(path) ==
    { Project(path, n, f, z, h) : n \in SimNames, f \in SimFiles, z \in SimSizes, h \in SimHashes }

SimInit ==
    /\ ModelInit
    /\ rootKind = "dir"
    /\ rootLen = 3
    /\ tree = EmptyTree
    /\ unreadable = {}
    /\ \E a \in SimProjects("p1"), b \in SimProjects("p2") : projects = <<a, b>>
    /\ RestartIdle /\ JsonIdle /\ SettingsIdle /\ HashIdle /\ ClsIdle

SimNext == CallSimilarity

SpecSim == SimInit /\ [][SimNext]_vars

(***************************************************************************)
(* FinderController.find_projects while a scan is active: stop_search(),   *)
(* time.sleep(0.5), then a new QThread and SearchWorker on the same        *)
(* FinderModel.  The earlier thread is neither waited for nor terminated;  *)
(* one earlier worker is followed.                                         *)
(***************************************************************************)
\* The earlier worker is still on its thread.
ParkedIsRunning == parked.pc \in {"started", "scan", "walk", "ret", "quit"}

\* The main thread is in its event loop and pc, stack, running describe the
\* worker the controller holds in self.search_worker.
MainIdle == mainPc = "idle" /\ slot = "current"

\* find_projects, first half: the thread isRunning(), so stop_search() calls
\* SearchWorker.stop; the main thread then sleeps.
RestartStop ==
    /\ MainIdle
    /\ ThreadIsRunning
    /\ parked = NoWorker
    /\ scans < MaxScans
    /\ running' = FALSE
    /\ log' = Append(log, EvFinished(Len(projects), "stop"))
    /\ mainPc' = "sleeping"
    /\ UNCHANGED <<fsVars, projects, pc, stack, ctlVars, obsVars, groupVars,
                   parked, slot, jsonVars, similarity_threshold, hashVars, clsVars, changed>>

\* find_projects, second half: the sleep is over; a new thread and worker
\* replace self.search_thread and self.search_worker, and the thread starts.
RestartStart ==
    /\ mainPc = "sleeping"
    /\ slot = "current"
    /\ parked' = [pc |-> pc, stack |-> stack, running |-> running]
    /\ mainPc' = "idle"
    /\ scans' = scans + 1
    /\ stops' = 0
    /\ running' = TRUE
    /\ pc' = "started"
    /\ stack' = << >>
    /\ log' = << >>
    /\ observed' = FALSE
    /\ obsWalk' = 0
    /\ obsProjects' = << >>
    /\ UNCHANGED <<fsVars, projects, groupVars, slot, jsonVars,
                   similarity_threshold, hashVars, clsVars, changed>>

\* The scheduler turns to the other of the two worker threads: pc, stack and
\* running describe that one from now on.
Switch ==
    /\ slot = "current" => ParkedIsRunning
    /\ parked' = [pc |-> pc, stack |-> stack, running |-> running]
    /\ pc' = parked.pc
    /\ stack' = parked.stack
    /\ running' = parked.running
    /\ slot' = IF slot = "current" THEN "earlier" ELSE "current"
    /\ UNCHANGED <<fsVars, projects, log, ctlVars, obsVars, groupVars, mainPc,
                   jsonVars, similarity_threshold, hashVars, clsVars, changed>>

\* Trees with a project at proj.
RestartTrees ==
    { t \in Trees : t[Root] = {} /\ t[<<"proj">>] = {MainPy}
                    /\ t[<<"proj", "sub">>] = {} /\ t[<<"lib">>] = {} }

RestartInit ==
    /\ ModelInit
    /\ rootKind = "dir"
    /\ rootLen = 3
    /\ unreadable = {}
    /\ tree \in RestartTrees
    /\ projects = << >>
    /\ RestartIdle /\ JsonIdle /\ SettingsIdle /\ HashIdle /\ ClsIdle

\* The first scan is requested with no scan active; the second while the
\* first is active.
RestartNext ==
    \/ MainIdle /\ scans = 0 /\ FindProjects
    \/ RunBegin
    \/ ScanStart
    \/ Enter
    \/ Classify
    \/ LoopEnd
    \/ LoopStopped
    \/ LoopItem
    \/ ScanFinish
    \/ RunEnd
    \/ ThreadExit
    \/ RestartStop
    \/ RestartStart
    \/ Switch

SpecRestart == RestartInit /\ [][RestartNext]_vars

(***************************************************************************)
(* An exception that leaves find_projects_recursive: the handler of the    *)
(* listing error (lines 194-198) prints a message with non-ASCII text and   *)
(* the path, and print raises UnicodeEncodeError on a stream that cannot   *)
(* encode them (a path with an undecodable byte on a UTF-8 stream, any     *)
(* path on an ASCII stream).                                               *)
(* Neither except clause of the walk catches it; the top-level handler of  *)
(* find_python_projects (lines 204-206) does.                              *)
(***************************************************************************)
EvUnexpected == Ev("error", Root, NoFile, 0, "except")

\* The top-level handler: search_error, then search_finished.emit(0).
UnexpectedErrorEvents == <<EvUnexpected, EvFinished(0, "scan")>>

ListingPrintRaises ==
    /\ pc = "walk"
    /\ stack # << >>
    /\ Top.phase = "classify"
    /\ Top.path \in unreadable
    /\ log' = log \o UnexpectedErrorEvents
    /\ stack' = << >>
    /\ pc' = "ret"
    /\ UNCHANGED <<fsVars, projects, running, ctlVars, obsVars, groupVars, extVars>>

ErrNext == Next \/ ListingPrintRaises

SpecErr == Init /\ [][ErrNext]_vars

(***************************************************************************)
(* Export and import: ProjectModel.to_dict / from_dict and                 *)
(* FinderModel.save_to_json / load_from_json.                              *)
(*                                                                         *)
(* A dictionary is the sequence of its items; a JSON value carries its     *)
(* type.  json.dump followed by json.load gives back the strings, integers,*)
(* lists and nulls these dictionaries hold, so the file is modelled by the *)
(* document it contains.                                                   *)
(***************************************************************************)
MaxRecords == 2

JNull == [t |-> "null"]
JInt(n) == [t |-> "int", v |-> n]
JStr(s) == [t |-> "str", v |-> s]
JList(l) == [t |-> "list", v |-> l]

Item(k, v) == [key |-> k, value |-> v]

\* key in data
HasKey(d, k) == \E i \in 1..Len(d) : d[i].key = k

\* data.get(key, default)
Get(d, k, default) ==
    IF HasKey(d, k) THEN d[CHOOSE i \in 1..Len(d) : d[i].key = k].value ELSE default

\* ProjectModel.last_modified: 0, the float st_mtime of __init__, or the
\* datetime of _analyze_project and from_dict.
LmZero == "zero"
LmFloat == "float"
LmDatetime == "datetime"

\* A ProjectModel with the attributes to_dict and from_dict handle.
FullProject(path, name, lm, files, markers, rsize, rcount, hash) ==
    [ path |-> path, name |-> name,
      file_count |-> Len(files), size |-> 5 * Len(files),
      last_modified |-> lm,
      python_files |-> files, project_files |-> markers,
      real_size |-> rsize, real_file_count |-> rcount, folder_hash |-> hash ]

\* self.last_modified.isoformat() on a float raises AttributeError.
ToDictRaises(p) == p.last_modified = LmFloat

to_dict_Truthy(p) ==
    << Item("path", JStr(p.path)),
       Item("name", JStr(p.name)),
       Item("file_count", JInt(p.file_count)),
       Item("size", JInt(p.size)),
       Item("last_modified", IF p.last_modified = LmDatetime THEN JStr("iso") ELSE JNull),
       Item("python_files", JList(p.python_files)),
       Item("project_files", JList(p.project_files)) >>
    \o (IF p.real_size # NoSize /\ p.real_size # Size(0)
        THEN <<Item("real_size", JInt(p.real_size[1]))>> ELSE << >>)
    \o (IF p.real_file_count # NoSize /\ p.real_file_count # Size(0)
        THEN <<Item("real_file_count", JInt(p.real_file_count[1]))>> ELSE << >>)
    \o (IF p.folder_hash # None /\ p.folder_hash # ""
        THEN <<Item("folder_hash", JStr(p.folder_hash))>> ELSE << >>)

\* ProjectModel.to_dict, for a project it does not raise on.
to_dict(p) ==
    << Item("path", JStr(p.path)),
       Item("name", JStr(p.name)),
       Item("file_count", JInt(p.file_count)),
       Item("size", JInt(p.size)),
       Item("last_modified", IF p.last_modified = LmDatetime THEN JStr("iso") ELSE JNull),
       Item("python_files", JList(p.python_files)),
       Item("project_files", JList(p.project_files)) >>
    \o (IF p.real_size # NoSize
        THEN <<Item("real_size", JInt(p.real_size[1]))>> ELSE << >>)
    \o (IF p.real_file_count # NoSize
        THEN <<Item("real_file_count", JInt(p.real_file_count[1]))>> ELSE << >>)
    \o (IF p.folder_hash # None
        THEN <<Item("folder_hash", JStr(p.folder_hash))>> ELSE << >>)

\* The project directories that exist where the import runs: os.stat(path)
\* in ProjectModel.__init__ succeeds for these.
OnDisk == { <<"p1">> }

\* data["path"] raises KeyError; datetime.fromisoformat raises ValueError on
\* a string that is no ISO date.
FromDictRaises(d) ==
    \/ ~HasKey(d, "path")
    \/ Get(d, "last_modified", JNull) = JStr("not a date")

OptInt(j) == IF j.t = "int" THEN Size(j.v) ELSE NoSize

OptStr(j) == IF j.t = "str" THEN j.v ELSE None

\* ProjectModel.from_dict, for a record it does not raise on.
from_dict(d) ==
    LET path == Get(d, "path", JNull).v
    IN  [ path |-> path,
          name |-> Get(d, "name", JStr(Basename(path))).v,
          file_count |-> Get(d, "file_count", JInt(0)).v,
          size |-> Get(d, "size", JInt(0)).v,
          last_modified |->
              IF Get(d, "last_modified", JNull).t = "str" THEN LmDatetime
              ELSE IF path \in OnDisk THEN LmFloat ELSE LmZero,
          python_files |-> Get(d, "python_files", JList(<< >>)).v,
          project_files |-> Get(d, "project_files", JList(<< >>)).v,
          real_size |-> OptInt(Get(d, "real_size", JNull)),
          real_file_count |-> OptInt(Get(d, "real_file_count", JNull)),
          folder_hash |-> OptStr(Get(d, "folder_hash", JNull)) ]

\* The file: absent or unreadable, not JSON, a JSON array, a JSON object
\* without the key python_projects, or an object with its records.
JsonFile(kind, by, records) == [kind |-> kind, by |-> by, records |-> records]

EvSaveError == Ev("error", Root, NoFile, 0, "save")
EvLoadError == Ev("error", Root, NoFile, 0, "load")

\* FinderModel.save_to_json.  The list of dictionaries is built before the
\* try block; open() and json.dump are inside it.
SaveToJson ==
    /\ snapshot' = projects
    /\ IF \E i \in 1..Len(projects) : ToDictRaises(projects[i])
       THEN /\ ioResult' = "save_raised"
            /\ log' = << >>
            /\ UNCHANGED jsonFile
       ELSE \E writable \in BOOLEAN :
              IF writable
              THEN /\ jsonFile' = JsonFile("object", "save",
                                      [ i \in 1..Len(projects) |-> to_dict(projects[i]) ])
                   /\ ioResult' = "saved"
                   /\ log' = << >>
              ELSE /\ ioResult' = "save_failed"
                   /\ log' = <<EvSaveError>>
                   /\ UNCHANGED jsonFile
    /\ UNCHANGED <<fsVars, projects, running, pc, stack, ctlVars, obsVars, groupVars,
                   restartVars, similarity_threshold, hashVars, clsVars, changed>>

\* The records of the file that from_dict accepts before the first it raises on.
RECURSIVE Accepted(_)
Accepted(rs) ==
    IF rs = << >> \/ FromDictRaises(Head(rs)) THEN << >>
    ELSE <<from_dict(Head(rs))>> \o Accepted(Tail(rs))

FoundEvents(ps) == [ i \in 1..Len(ps) |-> EvProject(ps[i].path) ]

\* FinderModel.load_from_json.
LoadFromJson ==
    /\ snapshot' = projects
    /\ IF jsonFile.kind \in {"missing", "invalid"}
       THEN \* open() or json.load raises
            /\ ioResult' = "load_failed"
            /\ log' = <<EvLoadError>>
            /\ UNCHANGED projects
       ELSE IF jsonFile.kind = "array"
       THEN \* self.projects = [] and then data.get raises AttributeError
            /\ ioResult' = "load_failed"
            /\ log' = <<EvLoadError>>
            /\ projects' = << >>
       ELSE LET loaded == Accepted(jsonFile.records)
            IN  /\ projects' = loaded
                /\ IF Len(loaded) = Len(jsonFile.records)
                   THEN /\ ioResult' = "loaded"
                        /\ log' = FoundEvents(loaded) \o <<EvFinished(Len(loaded), "load")>>
                   ELSE /\ ioResult' = "load_failed"
                        /\ log' = FoundEvents(loaded) \o <<EvLoadError>>
    /\ UNCHANGED <<fsVars, running, pc, stack, ctlVars, obsVars, groupVars,
                   jsonFile, restartVars, similarity_threshold, hashVars, clsVars, changed>>

\* Project lists to export.
JsonOptional ==
    { <<NoSize, NoSize, None>>, <<Size(7), Size(2), "h1">>,
      <<Size(0), Size(0), "">>, <<Size(7), NoSize, None>> }

JsonPool ==
    { FullProject(<<"p1">>, "p1", LmDatetime, <<"a.py", "b.py">>, <<"README.md">>, o[1], o[2], o[3]) :
        o \in JsonOptional }
    \cup { FullProject(<<"p2">>, "other", LmZero, << >>, << >>, o[1], o[2], o[3]) :
        o \in JsonOptional }
    \cup { FullProject(<<"p2">>, "p2", LmFloat, << >>, <<"setup.py">>, NoSize, NoSize, None) }

\* Files written by hand.
GoodRecord == << Item("path", JStr(<<"p1">>)) >>
NoPathRecord == << Item("name", JStr("x")), Item("file_count", JInt(1)) >>
BadDateRecord == << Item("path", JStr(<<"p2">>)), Item("last_modified", JStr("not a date")) >>
CountOnlyRecord == << Item("path", JStr(<<"p1">>)), Item("file_count", JInt(3)) >>

HandFiles ==
    { JsonFile("missing", "hand", << >>),
      JsonFile("invalid", "hand", << >>),
      JsonFile("array", "hand", << >>),
      JsonFile("object", "hand", << >>),
      JsonFile("object", "hand", <<GoodRecord>>),
      JsonFile("object", "hand", <<GoodRecord, NoPathRecord>>),
      JsonFile("object", "hand", <<BadDateRecord, GoodRecord>>),
      JsonFile("object", "hand", <<CountOnlyRecord>>) }

JsonInit ==
    /\ ModelInit
    /\ rootKind = "dir"
    /\ rootLen = 3
    /\ tree = EmptyTree
    /\ unreadable = {}
    /\ projects \in ListsOver(JsonPool, MaxRecords)
    /\ jsonFile \in HandFiles
    /\ ioResult = "none"
    /\ snapshot = << >>
    /\ RestartIdle /\ SettingsIdle /\ HashIdle /\ ClsIdle

JsonNext == SaveToJson \/ LoadFromJson

SpecJson == JsonInit /\ [][JsonNext]_vars

(***************************************************************************)
(* FinderController.update_settings, called with the dictionary of         *)
(* SettingsDialog.get_settings.                                            *)
(***************************************************************************)
Settings(dirs, exts, t) ==
    [ignored_dirs |-> dirs, python_extensions |-> exts, similarity_threshold |-> t]

SettingsChoices ==
    { Settings(d, e, t) : d \in {IGNORED_DIRECTORIES, {"lib"}},
                          e \in {PYTHON_EXTENSIONS, {".pyw"}},
                          t \in {Frac(1, 2), Frac(7, 10), Frac(9, 10)} }

\* update_settings assigns the two lists; settings["similarity_threshold"]
\* is not read.
UpdateSettings ==
    /\ pc = "none"
    /\ gpc = "idle"
    /\ \E settings \in SettingsChoices :
         /\ settings # Settings(ignore_dirs, python_extensions, similarity_threshold)
         /\ ignore_dirs' = settings.ignored_dirs
         /\ python_extensions' = settings.python_extensions
         /\ similarity_threshold' = settings.similarity_threshold
    /\ UNCHANGED <<rootKind, rootLen, tree, unreadable, projects, log, running, pc, stack,
                   ctlVars, obsVars, groupVars, restartVars, jsonVars, hashVars, clsVars,
                   changed>>

SettingsPool == { ProjA, ProjB, ProjC }

SettingsInit ==
    /\ ModelInit
    /\ rootKind = "dir"
    /\ rootLen = 3
    /\ tree = EmptyTree
    /\ unreadable = {}
    /\ projects \in ListsOver(SettingsPool, MaxProjects)
    /\ RestartIdle /\ JsonIdle /\ SettingsIdle /\ HashIdle /\ ClsIdle

SettingsNext == UpdateSettings \/ GroupStart \/ GroupStep \/ GroupFinish

SpecSettings == SettingsInit /\ [][SettingsNext]_vars

(***************************************************************************)
(* ProjectModel.calculate_folder_hash on an existing project directory.    *)
(* SHA-256 is taken to be free of collisions: a digest is the sequence of  *)
(* the updates given to folder_hasher.  The files are shorter than 10 MB.  *)
(***************************************************************************)
\* A file of the tree; fault is the step of its processing that raises
\* OSError ("stat", "open", "read"), or "none".
HashedFile(rel, name, size, mtime, content) ==
    [rel |-> rel, name |-> name, size |-> size, mtime |-> mtime, content |-> content,
     fault |-> "none"]

Faulty(f, fault) == [f EXCEPT !.fault = fault]

\* fnmatch.fnmatch(file.lower(), pattern): the patterns of
\* IGNORED_FILE_EXTENSIONS hold no wildcard, so a name matches only when it
\* is the pattern itself.
FnmatchIgnored(f) == f.stem = "" /\ Lower(f.ext) \in IGNORED_FILE_EXTENSIONS

\* all_files.sort(): the order of the paths of the model's files.
HashOrder == << ".png", "a.png", "a.py", "notes.txt", "sub/B.JPG" >>

HashRank(rel) == CHOOSE i \in 1..Len(HashOrder) : HashOrder[i] = rel

\* The files enumerated, sorted by path.
all_files(t) ==
    LET kept == { f \in t : ~FnmatchIgnored(f.name) }
    IN  [ i \in 1..Cardinality(kept) |->
            CHOOSE f \in kept :
              Cardinality({ g \in kept : HashRank(g.rel) < HashRank(f.rel) }) = i - 1 ]

MetadataUpdate(f) ==
    [kind |-> "metadata", rel |-> f.rel, size |-> f.size, mtime |-> f.mtime, content |-> ""]

ContentUpdate(f) ==
    [kind |-> "content", rel |-> "", size |-> 0, mtime |-> 0, content |-> f.content]

\* folder_hasher.update(metadata) follows os.stat and precedes open; the
\* update with the file digest follows the last read.  The handler of
\* OSError continues with the next file and takes no update back.
FileUpdates(f) ==
    IF f.fault = "stat" THEN << >>
    ELSE IF f.fault \in {"open", "read"} THEN << MetadataUpdate(f) >>
    ELSE << MetadataUpdate(f), ContentUpdate(f) >>

calculate_folder_hash(t) ==
    Flatten([ i \in 1..Len(all_files(t)) |-> FileUpdates(all_files(t)[i]) ])

\* A call calculate_folder_hash() on the project at hashInput[k].
CallHash ==
    \E k \in 1..Len(hashInput) :
        /\ \A c \in hashcalls : c.k # k
        /\ hashcalls' = hashcalls \cup { [k |-> k, digest |-> calculate_folder_hash(hashInput[k])] }
        /\ UNCHANGED <<scanVars, projects, groupVars, restartVars, jsonVars,
                       similarity_threshold, hashInput, clsVars, changed>>

\* The directory trees hashed.
APy == HashedFile("a.py", File("a", ".py"), 1, 1, "x")
NotesTxt == HashedFile("notes.txt", File("notes", ".txt"), 1, 1, "n")
DotPng == HashedFile(".png", File("", ".png"), 1, 1, "i")
SubJpg == HashedFile("sub/B.JPG", File("B", ".JPG"), 2, 2, "j")
APngVersions ==
    { HashedFile("a.png", File("a", ".png"), 1, 1, "i"),
      HashedFile("a.png", File("a", ".png"), 2, 2, "k") }

HashTrees ==
    { base \cup png \cup jpg \cup dot :
        base \in { {APy}, {APy, NotesTxt} },
        png \in { {} } \cup { {v} : v \in APngVersions },
        jpg \in { {}, {SubJpg} },
        dot \in { {}, {DotPng} } }

HashInit ==
    /\ ModelInit
    /\ rootKind = "dir"
    /\ rootLen = 3
    /\ tree = EmptyTree
    /\ unreadable = {}
    /\ projects = << >>
    /\ hashInput \in HashTrees \X HashTrees
    /\ hashcalls = {}
    /\ RestartIdle /\ JsonIdle /\ SettingsIdle /\ ClsIdle

HashNext == CallHash

SpecHash == HashInit /\ [][HashNext]_vars

\* Trees with files whose processing raises.
FileFaults == { "none", "stat", "open", "read" }

FaultTrees ==
    { a \cup n :
        a \in { {Faulty(APy, x)} : x \in FileFaults },
        n \in { {} } \cup { {Faulty(NotesTxt, x)} : x \in FileFaults } }

HashErrInit ==
    /\ ModelInit
    /\ rootKind = "dir"
    /\ rootLen = 3
    /\ tree = EmptyTree
    /\ unreadable = {}
    /\ projects = << >>
    /\ hashInput \in FaultTrees \X FaultTrees
    /\ hashcalls = {}
    /\ RestartIdle /\ JsonIdle /\ SettingsIdle /\ ClsIdle

SpecHashErr == HashErrInit /\ [][HashNext]_vars

(***************************************************************************)
(* FinderModel.is_python_project and is_project_root called on a directory *)
(* whose listing order is given.                                           *)
(***************************************************************************)
MaxListing == 3

\* An entry of os.listdir: its name, whether os.path.isfile holds for it,
\* and for a subdirectory the files inside it.
Entry(name, kind, inner) == [name |-> name, kind |-> kind, inner |-> inner]

\* The smallest element of a non-empty set of integers.
Least(S) == CHOOSE i \in S : \A j \in S : i <= j

Outcome(result, events) == [result |-> result, events |-> events]

python_project_call_Recursive(items, ok) ==
    LET hits == { i \in 1..Len(items) :
                    \/ /\ items[i].kind = "file"
                       /\ ~HasIgnoredExtension(items[i].name)
                       /\ items[i].name.ext \in python_extensions
                    \/ \E f \in items[i].inner : f.ext \in python_extensions }
    IN  IF ~ok \/ hits = {} THEN Outcome(FALSE, << >>)
        ELSE Outcome(TRUE, <<items[Least(hits)].name>>)

\* is_python_project: the loop over os.listdir returns at the first regular
\* file that has no ignored extension and ends with a python extension;
\* an error of os.listdir is caught and False returned.
python_project_call(items, ok) ==
    LET hits == { i \in 1..Len(items) :
                    /\ items[i].kind = "file"
                    /\ ~HasIgnoredExtension(items[i].name)
                    /\ items[i].name.ext \in python_extensions }
    IN  IF ~ok \/ hits = {} THEN Outcome(FALSE, << >>)
        ELSE Outcome(TRUE, <<items[Least(hits)].name>>)

\* is_project_root: the loop over PROJECT_ROOT_FILES returns at the first
\* marker that is listed, is a regular file and has no ignored extension.
project_root_call(items, ok) ==
    LET hits == { k \in 1..Len(PROJECT_ROOT_FILES) :
                    /\ \E i \in 1..Len(items) :
                          items[i].name = PROJECT_ROOT_FILES[k] /\ items[i].kind = "file"
                    /\ ~HasIgnoredExtension(PROJECT_ROOT_FILES[k]) }
    IN  IF ~ok \/ hits = {} THEN Outcome(FALSE, << >>)
        ELSE Outcome(TRUE, <<PROJECT_ROOT_FILES[Least(hits)]>>)

ClsCall(fn, out) == [fn |-> fn, result |-> out.result, events |-> out.events]

CallIsPythonProject ==
    /\ \A c \in clscalls : c.fn # "is_python_project"
    /\ clscalls' = clscalls \cup
          { ClsCall("is_python_project", python_project_call(listing, listable)) }
    /\ UNCHANGED <<scanVars, projects, groupVars, restartVars, jsonVars,
                   similarity_threshold, hashVars, listing, listable, changed>>

CallIsProjectRoot ==
    /\ \A c \in clscalls : c.fn # "is_project_root"
    /\ clscalls' = clscalls \cup
          { ClsCall("is_project_root", project_root_call(listing, listable)) }
    /\ UNCHANGED <<scanVars, projects, groupVars, restartVars, jsonVars,
                   similarity_threshold, hashVars, listing, listable, changed>>

\* The entries a listing is drawn from.
Entries ==
    { Entry(File("a", ".png"), "file", {}),
      Entry(File("b", ".py"), "file", {}),
      Entry(File("c", ".txt"), "file", {}),
      Entry(File("d", ".PY"), "file", {}),
      Entry(File("setup", ".py"), "file", {}),
      Entry(File("README", ".md"), "file", {}),
      Entry(File("LICENSE", ""), "dir", {}),
      Entry(File("pkg", ".py"), "dir", {MainPy}) }

RECURSIVE ListingsOver(_, _)
ListingsOver(S, n) ==
    IF n = 0 THEN { << >> }
    ELSE LET shorter == ListingsOver(S, n - 1)
         IN  shorter \cup { Append(l, x) : l \in { m \in shorter : Len(m) = n - 1 },
                                          x \in S }

\* os.listdir names each entry once.
Listings ==
    { l \in ListingsOver(Entries, MaxListing) :
        \A i, j \in 1..Len(l) : i # j => l[i] # l[j] }

ClsInit ==
    /\ ModelInit
    /\ rootKind = "dir"
    /\ rootLen = 3
    /\ tree = EmptyTree
    /\ unreadable = {}
    /\ projects = << >>
    /\ listing \in Listings
    /\ listable \in BOOLEAN
    /\ clscalls = {}
    /\ RestartIdle /\ JsonIdle /\ SettingsIdle /\ HashIdle

ClsNext == CallIsPythonProject \/ CallIsProjectRoot

SpecCls == ClsInit /\ [][ClsNext]_vars

(***************************************************************************)
(* A classified directory that changes before it is analysed (lines        *)
(* 154-169): between the two classifier calls and ProjectModel(path) /     *)
(* _analyze_project another process removes the directory or takes away    *)
(* the permission to list it.                                              *)
(***************************************************************************)
\* ProjectModel(path) on a missing directory: os.stat raises
\* FileNotFoundError, which __init__ catches; _analyze_project returns at
\* its first test (os.path.exists) and leaves the lists empty.
VanishedProject(d) ==
    [ path |-> d,
      name |-> Basename(d),
      python_files |-> << >>,
      project_files |-> << >>,
      real_size |-> NoSize,
      folder_hash |-> None ]

\* The directory is gone when it is analysed: no exception is raised, the
\* project is appended and announced.
AnalyzeVanished ==
    /\ pc = "walk"
    /\ stack # << >>
    /\ Top.phase = "classify"
    /\ LET d == Top.path
           isPy == is_python_project(d)
           isRt == is_project_root(d)
       IN  /\ IsNewProject(Top, isPy, isRt)
           /\ \E f \in (IF isPy THEN PythonMatches(d) ELSE {NoFile}) :
                log' = log \o ClassifyEvents(d, f) \o <<EvProject(d)>>
           /\ projects' = AddProject(projects, VanishedProject(d))
           /\ changed' = changed \cup { <<scans, d, "vanished">> }
    /\ stack' = AfterProject(Top)
    /\ UNCHANGED <<fsVars, running, pc, ctlVars, obsVars, groupVars,
                   restartVars, jsonVars, similarity_threshold, hashVars, clsVars>>

\* The directory exists but cannot be listed when it is analysed:
\* os.listdir in _analyze_project raises PermissionError, the handler of
\* line 166 prints a message and the call returns without a project.
AnalyzeRaises ==
    /\ pc = "walk"
    /\ stack # << >>
    /\ Top.phase = "classify"
    /\ LET d == Top.path
           isPy == is_python_project(d)
           isRt == is_project_root(d)
       IN  /\ IsNewProject(Top, isPy, isRt)
           /\ \E f \in (IF isPy THEN PythonMatches(d) ELSE {NoFile}) :
                log' = log \o ClassifyEvents(d, f)
           /\ changed' = changed \cup { <<scans, d, "unreadable">> }
    /\ stack' = AfterProject(Top)
    /\ UNCHANGED <<fsVars, projects, running, pc, ctlVars, obsVars, groupVars,
                   restartVars, jsonVars, similarity_threshold, hashVars, clsVars>>

RaceNext == Next \/ AnalyzeVanished \/ AnalyzeRaises

SpecRace == Init /\ [][RaceNext]_vars


(***************************************************************************)
(* Project lists in which two groups form before a pair joining them is    *)
(* processed.                                                              *)
(***************************************************************************)
ProjB2 == Project("p2", <<"a">>, <<PyFile("a")>>, NoSize, None)
ProjD == Project("p7", <<"c">>, <<PyFile("a")>>, Size(4), None)

CrossPool == { ProjA, ProjB2, ProjC, ProjD }

CrossInit ==
    /\ ModelInit
    /\ rootKind = "dir"
    /\ rootLen = 3
    /\ tree = EmptyTree
    /\ unreadable = {}
    /\ projects \in ListsOver(CrossPool, MaxProjects)
    /\ RestartIdle /\ JsonIdle /\ SettingsIdle /\ HashIdle /\ ClsIdle

SpecCross == CrossInit /\ [][DupNext]_vars


(***************************************************************************)
(* Properties of the scan.                                                 *)
(***************************************************************************)
\* find_python_projects has returned in the current scan.
Ended == pc \in {"ret", "quit"}

LogHas(e) == \E i \in 1..Len(log) : log[i] = e

IsType(t, e) == e.type = t

NumberOf(t) == Cardinality({ i \in 1..Len(log) : log[i].type = t })

ProperPrefix(a, b) == Len(a) < Len(b) /\ IsPrefix(a, b)

ProjectPaths == [ i \in 1..Len(projects) |-> projects[i].path ]

\* The scan ran to its end without a stop request.
Uncancelled == Ended /\ stops = 0

\* R/proj/main.py and R/proj/sub/deep.py, nothing else that classifies.
NestedExample ==
    /\ rootKind = "dir"
    /\ unreadable = {}
    /\ PathLen(rootLen, <<"proj">>) <= MAX_PATH
    /\ tree[Root] = {}
    /\ tree[<<"lib">>] = {}
    /\ tree[<<"proj">>] = {MainPy}
    /\ tree[<<"proj", "sub">>] = {MainPy}

\* C1: once a non-root directory is reported as a Project, no directory
\* below it is visited or reported, so no reported Project is an ancestor of
\* another; and an uncancelled scan of R/proj/main.py with R/proj/sub/deep.py
\* reports exactly one Project, R/proj.
C1_NoDescentIntoProject ==
    /\ \A i, j \in 1..Len(log) :
         (log[i].type = "project" /\ log[j].type \in {"dir", "project"})
            => ~ProperPrefix(log[i].path, log[j].path)
    /\ \A i, j \in 1..Len(projects) :
         ~ProperPrefix(projects[i].path, projects[j].path)
    /\ (Uncancelled /\ NestedExample) => ProjectPaths = << <<"proj">> >>

C1_Witness ==
    /\ Uncancelled
    /\ NestedExample
    /\ LogHas(EvProject(<<"proj">>))
    /\ Len(projects) = 1

HasIgnoredName(d) == \E i \in 1..Len(d) : d[i] \in ignore_dirs

\* C3: a directory named as an entry of the ignore set, and every directory
\* below it, is never visited and never reported as a Project, even though
\* it holds .py files.
C3_IgnoredNeverVisited ==
    \A d \in Dirs :
        HasIgnoredName(d) =>
            /\ ~LogHas(EvDir(d))
            /\ ~LogHas(EvProject(d))
            /\ \A i \in 1..Len(projects) : projects[i].path # d

C3_Witness ==
    /\ Uncancelled
    /\ rootKind = "dir"
    /\ tree[Root] = {}
    /\ tree[<<"node_modules">>] = {MainPy}
    /\ LogHas(EvDir(<<"lib">>))
    /\ LogHas(EvDir(<<"proj">>))

IsError(e) == e.type = "error"

IsScanFinished(e) == e.type = "finished" /\ e.src = "scan"

\* C9: once a poll has read the stop flag False, the walk emits no further
\* directory-visited, file-observed or project-found notification, raises no
\* error, keeps the projects collected so far, and the scan ends with one
\* scan-finished of its own carrying the number of projects collected.
C9_StopObserved ==
    observed =>
        /\ Count(log, IsWalk) = obsWalk
        /\ projects = obsProjects
        /\ Count(log, IsError) = 0
        /\ pc \in {"ret", "quit", "none"} =>
             /\ Count(log, IsScanFinished) = 1
             /\ LogHas(EvFinished(Len(obsProjects), "scan"))

C9_Witness ==
    /\ observed
    /\ pc = "ret"
    /\ Len(obsProjects) = 1
    /\ stack = << >>

\* C10: every scan emits scan-start exactly once, with the project list
\* empty, and exactly one scan-finished, however the scan ends.
C10_OneStartOneFinish ==
    /\ (log # << >> /\ log[Len(log)].type = "started") => projects = << >>
    /\ NumberOf("finished") <= 1
    /\ Ended => (NumberOf("started") = 1 /\ NumberOf("finished") = 1)

(***************************************************************************)
(* Properties of the duplicate analysis.                                   *)
(***************************************************************************)
\* C4: every group of group_duplicates has at least two member projects, and
\* a project list of 0 or 1 projects yields no group.
C4_GroupsHaveTwoMembers ==
    /\ \A g \in 1..Len(groups) : Len(groups[g].projects) >= 2
    /\ (gpc = "done" /\ Len(projects) <= 1) => groups = << >>

\* The score find_duplicates computes for the projects at i and j.
PairScore(i, j) == calculate_similarity(projects[Min(i, j)], projects[Max(i, j)])

HasPath(path, ps) == \E m \in 1..Len(ps) : ps[m].path = path

DistinctPaths == \A i, j \in 1..Len(projects) : i # j => projects[i].path # projects[j].path

\* C5: candidate pairs (A,B) at 0.9 and (B,C) at 0.75 with similarity(A,C)
\* below the threshold 0.7 give exactly one group, of A, B and C; and a
\* processed pair of which exactly one project is already in a group puts the
\* other project into that same group.
C5_ChainsIntoOneGroup ==
    /\ (gpc = "done" /\ Len(projects) = 3 /\ DistinctPaths)
         => \A i, j, k \in 1..3 :
              ( /\ {i, j, k} = 1..3
                /\ PairScore(i, j) = Frac(9, 10)
                /\ PairScore(j, k) = Frac(3, 4)
                /\ Less(PairScore(i, k), SIMILARITY_THRESHOLD) )
              => /\ Len(groups) = 1
                 /\ Len(groups[1].projects) = 3
                 /\ \A m \in 1..3 : HasPath(projects[m].path, groups[1].projects)
    /\ (gpc = "loop" /\ lastPair # NoPair /\ lastPair.had1 # lastPair.had2)
         => /\ ~lastPair.skipped
            /\ \E h \in 1..Len(groups) :
                 /\ lastPair.holders = {h}
                 /\ HasPath(lastPair.p1, groups[h].projects)
                 /\ HasPath(lastPair.p2, groups[h].projects)
                 /\ \A g \in 1..Len(groups) :
                      g # h => /\ ~HasPath(lastPair.p1, groups[g].projects)
                               /\ ~HasPath(lastPair.p2, groups[g].projects)

C5_Witness ==
    /\ projects = <<ProjA, ProjB, ProjC>>
    /\ gpc = "loop"
    /\ duplicates = << >>
    /\ lastPair.had1 /\ ~lastPair.had2
    /\ lastPair.p2 = ProjC.path
    /\ Len(groups) = 1
    /\ Len(groups[1].projects) = 3

CallOf(c) == <<projects[c.i], projects[c.j]>>

\* C6 as stated: two distinct records with equal non-null folder_hash have
\* similarity exactly 1.0, whatever their file lists, names and sizes.
C6_EqualHashGivesOne ==
    \A c \in simcalls :
        ( /\ CallOf(c)[1].folder_hash # None
          /\ CallOf(c)[1].folder_hash = CallOf(c)[2].folder_hash )
        => c.result = One

\* C6, amended: two distinct records whose source-file lists are both
\* non-empty and whose folder_hash values are equal and non-empty have
\* similarity exactly 1.0, whatever their file lists, names and sizes.
C6_EqualHashNonEmptyGivesOne ==
    \A c \in simcalls :
        ( /\ CallOf(c)[1].folder_hash \notin {None, ""}
          /\ CallOf(c)[1].folder_hash = CallOf(c)[2].folder_hash
          /\ CallOf(c)[1].python_files # << >>
          /\ CallOf(c)[2].python_files # << >> )
        => c.result = One

C6_Witness ==
    \E c \in simcalls :
        /\ CallOf(c)[1].folder_hash = "h1"
        /\ CallOf(c)[2].folder_hash = "h1"
        /\ CallOf(c)[1].name # CallOf(c)[2].name
        /\ Len(CallOf(c)[1].python_files) = 1
        /\ Len(CallOf(c)[2].python_files) = 2
        /\ CallOf(c)[1].real_size = Size(1)
        /\ CallOf(c)[2].real_size = Size(2)
        /\ c.result = One

\* C7: _calculate_similarity(a, b) equals _calculate_similarity(b, a), and
\* the value lies in [0.0, 1.0].
C7_SymmetricAndBounded ==
    /\ \A c \in simcalls : Geq(c.result, Zero) /\ Geq(One, c.result)
    /\ \A c, d \in simcalls : (c.i = d.j /\ c.j = d.i) => c.result = d.result

\* C8: a project with an empty source-file list has similarity 0.0 with every
\* other project, is in no candidate pair of find_duplicates and is a member
\* of no group.
C8_EmptyProjectNeverDuplicate ==
    /\ \A i, j \in 1..Len(projects) :
         (i # j /\ projects[i].python_files = << >>)
            => /\ calculate_similarity(projects[i], projects[j]) = Zero
               /\ calculate_similarity(projects[j], projects[i]) = Zero
    /\ \A k \in 1..Len(duplicates) :
         /\ duplicates[k].project1.python_files # << >>
         /\ duplicates[k].project2.python_files # << >>
    /\ \A g \in 1..Len(groups) : \A m \in 1..Len(groups[g].projects) :
         groups[g].projects[m].python_files # << >>

C8_Witness ==
    /\ gpc = "done"
    /\ \E i, j \in 1..Len(projects) : projects[i] = ProjE /\ projects[j] = ProjF
    /\ \E i, j \in 1..Len(projects) : projects[i] = ProjE /\ projects[j] = ProjC
    /\ Len(groups) >= 1

(***************************************************************************)
(* Properties of a scan requested while another is active.                 *)
(***************************************************************************)
\* C11: at most one scan executes on the FinderModel at any time: the earlier
\* scan has exited before the new worker starts, so it appends nothing to the
\* new scan's project list, which therefore lists no directory twice.
C11_OneScanAtATime ==
    /\ ~(pc = "walk" /\ parked.pc = "walk")
    /\ (parked # NoWorker) => ~ParkedIsRunning
    /\ DistinctPaths

(***************************************************************************)
(* Properties of the scan's error paths and guards.                        *)
(***************************************************************************)
\* C12: when root_path does not exist or is not a directory, the scan emits
\* exactly one scan-error followed by a scan-finished carrying 0, emits no
\* directory-visited, file-observed or project-found, and returns an empty
\* project list.
C12_InvalidRoot ==
    (rootKind \in {"missing", "file"} /\ Ended) =>
        /\ Count(log, IsError) = 1
        /\ Count(log, IsScanFinished) = 1
        /\ \E i, j \in 1..Len(log) :
              i < j /\ IsError(log[i]) /\ log[j] = EvFinished(0, "scan")
        /\ Count(log, IsWalk) = 0
        /\ projects = << >>

C12_Witness ==
    /\ rootKind = "file"
    /\ pc = "ret"
    /\ stops = 0
    /\ log = <<EvStarted, EvError, EvFinished(0, "scan")>>

\* C13: an unexpected error that escapes the traversal is caught at the top
\* level: scan-error is emitted, nothing more is visited, the partial results
\* stay in the project list and the scan-finished that follows carries their
\* number.
C13_ErrorKeepsCount ==
    (Ended /\ LogHas(EvUnexpected)) =>
        /\ Count(log, IsScanFinished) = 1
        /\ \E i \in 1..Len(log) :
              /\ log[i] = EvUnexpected
              /\ \A j \in (i + 1)..Len(log) : ~IsWalk(log[j])
              /\ \E j \in (i + 1)..Len(log) : log[j] = EvFinished(Len(projects), "scan")

(***************************************************************************)
(* Properties of export and import.                                        *)
(***************************************************************************)
\* The attributes the round trip is to reproduce.
SameExported(p, q) ==
    /\ p.path = q.path
    /\ p.file_count = q.file_count
    /\ p.size = q.size
    /\ p.python_files = q.python_files
    /\ p.project_files = q.project_files
    /\ p.real_size = q.real_size
    /\ p.real_file_count = q.real_file_count
    /\ p.folder_hash = q.folder_hash

\* C14: load_from_json of a file written by save_to_json succeeds and yields
\* a project list of the same length and order as the exported one, each
\* project with the same path, file_count, size, python_files and
\* project_files, and with real_size, real_file_count and folder_hash equal
\* where they were present and unset where they were absent.
C14_RoundTrip ==
    (jsonFile.by = "save" /\ ioResult \in {"loaded", "load_failed"}) =>
        /\ ioResult = "loaded"
        /\ Len(projects) = Len(snapshot)
        /\ \A i \in 1..Len(projects) : SameExported(projects[i], snapshot[i])

C14_Witness ==
    /\ jsonFile.by = "save"
    /\ ioResult = "loaded"
    /\ Len(projects) = 2
    /\ projects[1].path = <<"p2">> /\ projects[2].path = <<"p1">>
    /\ projects[1].real_size = Size(0) /\ projects[1].folder_hash = ""
    /\ projects[2].real_size = NoSize /\ projects[2].folder_hash = None
    /\ projects[2].python_files = <<"a.py", "b.py">>

\* C15: when load_from_json fails, for whatever reason, it has emitted an
\* error notification and the project list is what it was before the call.
C15_FailedLoadKeepsList ==
    ioResult = "load_failed" =>
        /\ log # << >> /\ log[Len(log)] = EvLoadError
        /\ projects = snapshot

(***************************************************************************)
(* Properties of the settings.                                             *)
(***************************************************************************)
\* find_duplicates has just returned its candidate pairs to group_duplicates.
CandidatesFresh ==
    \/ gpc = "loop" /\ lastPair = NoPair
    \/ gpc = "done" /\ groups = << >>

\* C16: after update_settings with threshold t, the next find_duplicates
\* records as candidates exactly the pairs whose similarity is at or above t.
C16_ThresholdTakesEffect ==
    CandidatesFresh =>
        \A i, j \in 1..Len(projects) :
            i < j =>
              ( Geq(PairScore(i, j), similarity_threshold)
                  <=> \E k \in 1..Len(duplicates) :
                        /\ duplicates[k].project1 = projects[i]
                        /\ duplicates[k].project2 = projects[j] )

(***************************************************************************)
(* Properties of the folder hash.                                          *)
(***************************************************************************)
\* The files of a tree whose extension is not in the ignored set.
WithoutIgnored(t) == { f \in t : ~HasIgnoredExtension(f.name) }

\* C17: files whose extension is in the ignored-extension set, compared
\* case-insensitively, are left out of the hash: two trees that differ only
\* in such files have the same digest.
C17_IgnoredFilesNotHashed ==
    \A c, d \in hashcalls :
        WithoutIgnored(hashInput[c.k]) = WithoutIgnored(hashInput[d.k])
            => c.digest = d.digest

(***************************************************************************)
(* Properties of the directory classifiers.                                *)
(***************************************************************************)
\* Positions of the regular files directly in the directory whose name ends
\* with a source extension and with no ignored extension.
DirectSources ==
    { i \in 1..Len(listing) :
        /\ listing[i].kind = "file"
        /\ listing[i].name.ext \in PYTHON_EXTENSIONS
        /\ Lower(listing[i].name.ext) \notin IGNORED_FILE_EXTENSIONS }

\* Positions of the regular files directly in the directory that are named
\* exactly as a marker file.
DirectMarkers ==
    { i \in 1..Len(listing) :
        /\ listing[i].kind = "file"
        /\ \E k \in 1..Len(PROJECT_ROOT_FILES) : PROJECT_ROOT_FILES[k] = listing[i].name
        /\ Lower(listing[i].name.ext) \notin IGNORED_FILE_EXTENSIONS }

\* Position in PROJECT_ROOT_FILES of a marker name.
MarkerIndex(name) == CHOOSE k \in 1..Len(PROJECT_ROOT_FILES) : PROJECT_ROOT_FILES[k] = name

\* The classifier returns true iff one of the positions exists and listing
\* raises no error, and then notifies the file at position `first` only.
ClassifiesBy(c, positions, first) ==
    /\ c.result <=> (listable /\ positions # {})
    /\ c.result => c.events = <<listing[first].name>>
    /\ ~c.result => c.events = << >>

\* C18 as stated: each classifier is true iff the directory directly holds a
\* matching regular file, false on a listing error, and notifies exactly the
\* first matching file in listing order when true, nothing when false.
C18_FirstInListingOrder ==
    \A c \in clscalls :
        /\ c.fn = "is_python_project" =>
              ClassifiesBy(c, DirectSources, Least(DirectSources))
        /\ c.fn = "is_project_root" =>
              ClassifiesBy(c, DirectMarkers, Least(DirectMarkers))

\* C18, amended: as above for is_python_project; is_project_root notifies
\* the matching marker file that comes first in PROJECT_ROOT_FILES.
C18_Classifiers ==
    \A c \in clscalls :
        /\ c.fn = "is_python_project" =>
              ClassifiesBy(c, DirectSources, Least(DirectSources))
        /\ c.fn = "is_project_root" =>
              ClassifiesBy(c, DirectMarkers,
                  CHOOSE i \in DirectMarkers :
                      \A j \in DirectMarkers :
                          MarkerIndex(listing[i].name) <= MarkerIndex(listing[j].name))

C18_Witness ==
    /\ listable
    /\ listing = << Entry(File("a", ".png"), "file", {}),
                    Entry(File("setup", ".py"), "file", {}),
                    Entry(File("README", ".md"), "file", {}) >>
    /\ ClsCall("is_python_project", Outcome(TRUE, <<File("setup", ".py")>>)) \in clscalls
    /\ ClsCall("is_project_root", Outcome(TRUE, <<File("README", ".md")>>)) \in clscalls

\* C19: a directory whose full path is longer than 255 characters is neither
\* classified nor descended into: after its directory-visited notification
\* the scan emits no file-observed, project-found or directory-visited
\* notification for it or anything below it, and no project at or below it
\* is in the project list.
C19_PathLengthGuard ==
    \A d \in Dirs :
        PathLen(rootLen, d) > 255 =>
            /\ \A i \in 1..Len(log) :
                  log[i] = EvDir(d) =>
                      \A j \in (i + 1)..Len(log) :
                          IsWalk(log[j]) => ~IsPrefix(d, log[j].path)
            /\ \A k \in 1..Len(projects) : ~IsPrefix(d, projects[k].path)

C19_Witness ==
    /\ rootLen = 250
    /\ tree[<<"proj">>] = {}
    /\ tree[<<"proj", "sub">>] = {MainPy}
    /\ pc = "ret"
    /\ stops = 0
    /\ LogHas(EvDir(<<"proj", "sub">>))
    /\ ~LogHas(EvProject(<<"proj", "sub">>))


\* Neither the empty-list rule nor the equal-hash rule decides the call.
WeightedCase(c) ==
    /\ CallOf(c)[1].python_files # << >>
    /\ CallOf(c)[2].python_files # << >>
    /\ ~( /\ CallOf(c)[1].folder_hash \notin {None, ""}
          /\ CallOf(c)[2].folder_hash \notin {None, ""}
          /\ CallOf(c)[1].folder_hash = CallOf(c)[2].folder_hash )

\* Both projects have a real size computed and both sizes are > 0.
SizesUsable(c) ==
    /\ CallOf(c)[1].real_size # NoSize /\ CallOf(c)[2].real_size # NoSize
    /\ CallOf(c)[1].real_size[1] > 0 /\ CallOf(c)[2].real_size[1] > 0

\* C20: when neither rule 1 nor rule 2 applies, _calculate_similarity
\* returns 0.6*file + 0.2*name + 0.2*(min/max of the real sizes) exactly when
\* both projects have a real size and both are > 0, and 0.7*file + 0.3*name
\* in every other case, a real size that is absent or equal to 0 included.
C20_WeightsBySizeAvailability ==
    \A c \in simcalls :
        WeightedCase(c) =>
            LET f == Ratio(SortedBasenames(CallOf(c)[1]), SortedBasenames(CallOf(c)[2]))
                n == Ratio(CallOf(c)[1].name, CallOf(c)[2].name)
                a == CallOf(c)[1].real_size
                b == CallOf(c)[2].real_size
            IN  c.result = IF SizesUsable(c)
                           THEN Weighted3(f, n, Frac(Min(a[1], b[1]), Max(a[1], b[1])))
                           ELSE Weighted2(f, n)


\* The files of a tree whose processing raises no error.
WithoutFaulty(t) == { f \in t : f.fault = "none" }

\* C21: a file that raises an I/O or permission error at any point of its
\* processing (stat, open or read) contributes nothing to the folder digest:
\* the digest of a tree equals the digest of the same tree without its
\* faulty files.
C21_FaultyFilesNotHashed ==
    \A c, d \in hashcalls :
        WithoutFaulty(hashInput[c.k]) = WithoutFaulty(hashInput[d.k])
            => c.digest = d.digest


(***************************************************************************)
(* Properties of the scan on a file system that changes or refuses access. *)
(***************************************************************************)
\* The directories whose analysis failed in the current scan.
FailedNow == { c[2] : c \in { x \in changed : x[1] = scans } }

\* C22: when constructing or analyzing a classified directory fails, the
\* directory having vanished or become unreadable between classification
\* and analysis, the candidate is not added to the project list, no
\* project-found is emitted for it, no scan-error is emitted, and the
\* traversal continues with the remaining directories.
C22_FailedCandidateDropped ==
    /\ \A d \in FailedNow :
          /\ \A k \in 1..Len(projects) : projects[k].path # d
          /\ ~LogHas(EvProject(d))
    /\ (FailedNow # {} /\ Ended /\ stops = 0) =>
          /\ Count(log, IsError) = 0
          /\ \A e \in Dirs :
                ( /\ e # Root
                  /\ LogHas(EvDir(Parent(e)))
                  /\ ~BelowIgnored(e)
                  /\ ~TooLong(Parent(e))
                  /\ Parent(e) \notin unreadable
                  /\ \A k \in 1..Len(projects) : projects[k].path # Parent(e)
                  /\ Parent(e) \notin FailedNow )
                => LogHas(EvDir(e))


\* An unreadable directory the scan has come to.
HitUnreadable(d) == d \in unreadable /\ LogHas(EvDir(d))

\* C23: a permission or OS error while classifying or listing a directory d
\* ends the processing of d only: no scan-error is emitted, nothing below d
\* is visited, the siblings of d in the parent's listing are still visited,
\* and the scan ends with a scan-finished carrying the number of projects.
C23_ListingErrorIsLocal ==
    (Ended /\ stops = 0) =>
        \A d \in Dirs :
            HitUnreadable(d) =>
                /\ Count(log, IsError) = 0
                /\ log[Len(log)] = EvFinished(Len(projects), "scan")
                /\ \A e \in Dirs :
                      (IsPrefix(d, e) /\ e # d) => ~LogHas(EvDir(e))
                /\ \A e \in Dirs :
                      ( /\ d # Root /\ e # Root
                        /\ Parent(e) = Parent(d)
                        /\ ~BelowIgnored(e) )
                      => LogHas(EvDir(e))


\* C24: save_to_json never raises: for every project list reachable after a
\* scan or an import it returns true after writing the file, or returns
\* false and emits an error notification.
C24_SaveNeverRaises ==
    /\ ioResult # "save_raised"
    /\ ioResult = "saved" =>
          /\ jsonFile.kind = "object" /\ jsonFile.by = "save"
          /\ Len(jsonFile.records) = Len(snapshot)
    /\ ioResult = "save_failed" => log = <<EvSaveError>>


(***************************************************************************)
(* Properties of the order of the results.                                 *)
(***************************************************************************)
\* The paths announced by project-found, in the order of the notifications.
AnnouncedPaths ==
    LET found == SelectSeq(log, LAMBDA e : e.type = "project")
    IN  [ i \in 1..Len(found) |-> found[i].path ]

\* C25: within one scan, projects are appended to the project list and
\* announced by project-found in depth-first pre-order of the walk: the
\* sequence of project-found notifications equals the project list in
\* order, and each project-found for a directory d comes after the
\* directory-visited for d and before the directory-visited of any
\* directory visited later.
C25_PreOrder ==
    LogHas(EvStarted) =>
        /\ AnnouncedPaths = ProjectPaths
        /\ \A j \in 1..Len(log) :
              log[j].type = "project" =>
                  \E i \in 1..(j - 1) :
                      /\ log[i] = EvDir(log[j].path)
                      /\ \A k \in (i + 1)..(j - 1) : log[k].type # "dir"

C25_Witness ==
    /\ pc = "ret"
    /\ stops = 0
    /\ ProjectPaths = << <<"proj", "sub">>, <<"lib">> >>
    /\ AnnouncedPaths = << <<"proj", "sub">>, <<"lib">> >>


\* C26: for every Project in every reachable state (after construction,
\* after _analyze_project, and after from_dict of any accepted record),
\* file_count equals the length of its python_files list.
C26_FileCountIsLength ==
    \A i \in 1..Len(projects) :
        projects[i].file_count = Len(projects[i].python_files)


Together(p, q) ==
    \E g \in 1..Len(groups) :
        HasPath(p, groups[g].projects) /\ HasPath(q, groups[g].projects)

\* C28: for every pair of projects whose similarity is at or above the
\* threshold (every candidate pair of find_duplicates), both projects are
\* members of the same group in the result of group_duplicates.
C28_CandidatesShareGroup ==
    gpc = "done" =>
        \A i, j \in 1..Len(projects) :
            (i < j /\ Geq(PairScore(i, j), SIMILARITY_THRESHOLD))
                => Together(projects[i].path, projects[j].path)


\* The similarity map of group g holds the key <<p, q>> with value v.
HasEntry(g, p, q, v) ==
    \E n \in 1..Len(groups[g].similarities) :
        /\ groups[g].similarities[n].key = <<p, q>>
        /\ groups[g].similarities[n].value = v

\* C29: the groups of group_duplicates are pairwise disjoint: every project
\* is a member of at most one group and appears at most once in that group's
\* member list, and every key of a group's similarity map is a pair of that
\* group's members whose recorded score is at or above the threshold and is
\* stored for both orders of the pair.
C29_GroupsDisjoint ==
    /\ \A g, h \in 1..Len(groups) :
          \A m \in 1..Len(groups[g].projects), n \in 1..Len(groups[h].projects) :
              groups[g].projects[m].path = groups[h].projects[n].path
                  => (g = h /\ m = n)
    /\ \A g \in 1..Len(groups) :
          \A n \in 1..Len(groups[g].similarities) :
              LET e == groups[g].similarities[n]
              IN  /\ HasPath(e.key[1], groups[g].projects)
                  /\ HasPath(e.key[2], groups[g].projects)
                  /\ Geq(e.value, SIMILARITY_THRESHOLD)
                  /\ HasEntry(g, e.key[2], e.key[1], e.value)

C29_Witness ==
    /\ gpc = "done"
    /\ projects = <<ProjA, ProjB2, ProjC, ProjD>>
    /\ Len(groups) = 2
    /\ Len(groups[1].projects) = 2
    /\ Len(groups[2].projects) = 2
    /\ HasEntry(1, ProjB2.path, ProjA.path, One)
    /\ HasEntry(2, ProjD.path, ProjC.path, One)


(***************************************************************************)
(* Properties of the stop request.                                         *)
(***************************************************************************)
\* C30: a stop request is never lost: once SearchWorker.stop has set the
\* running flag to false for a worker whose thread has been started, the
\* flag stays false until that worker emits finished, under every
\* interleaving of stop with the worker's run, so the walk classifies
\* nothing after its next poll.
C30_StopNeverLost ==
    (stops >= 1 /\ ThreadIsRunning) =>
        /\ ~running
        /\ observed => Count(log, IsWalk) = obsWalk


====
